---- MODULE Spec2Model ----
(***************************************************************************)
(* Orbit response matrix (ORM) measurement and correction,                 *)
(* phantasy/library/physics/orm.py.                                        *)
(*                                                                         *)
(* Numbers: the code works on floats; the model works on exact rationals   *)
(* [num, den] over the integers.  A value with den = 0 is a non-finite     *)
(* float (inf or nan), which is what a division by zero yields in numpy.   *)
(***************************************************************************)
EXTENDS Integers, Sequences, FiniteSets, TLC

VARIABLES
    ANG,        \* corrector hardware: ANG[j] is the cor_field value of corrector j
    ANG_call,   \* history: the correctors' values when get_orm was called
    correctors, \* get_orm argument: sequence of corrector ids
    monitors,   \* get_orm argument: sequence of monitor ids
    scan,       \* kws['scan']
    xoy,        \* kws['xoy']: <<"x">>, <<"y">> or <<"x","y">>
    pc,         \* position in get_orm / get_orm_for_one_corrector
    i,          \* get_orm: loop index over correctors (1-based)
    iscan,      \* loop index over scan (1-based)
    cor_val0,   \* saved corrector value
    orbit,      \* the vector get_orbit returned last
    orbit_arr,  \* readings of the current corrector scan, one row per scan value
    mat_mn,     \* get_orm: the matrix being filled
    ret,        \* get_orm: returned matrix
    idx,        \* get_orm_for_one_corrector: kws['idx'] (1-based here)
    r,          \* get_orm_for_one_corrector: returned column
    log,        \* history: hardware operations of get_orm, in order
    log1,       \* history: hardware operations of get_orm_for_one_corrector
    call,       \* last call of a pure function: [fn, args, ret]
    wpc,        \* position in waitStableOrbit
    kwargs,     \* waitStableOrbit: minwait, maxwait, step, diffstd_list
    now,        \* time.time(), in seconds
    t0,         \* waitStableOrbit: time of the call
    dt,         \* waitStableOrbit: time since the call
    dv,         \* waitStableOrbit: std of the last orbit read minus reforbit
    dvstd,      \* waitStableOrbit: the list of std values
    timeout,    \* waitStableOrbit: the timeout flag
    wret        \* waitStableOrbit: returned value

waitvars == <<wpc, kwargs, now, t0, dt, dv, dvstd, timeout, wret>>

vars == <<ANG, ANG_call, correctors, monitors, scan, xoy, pc, i, iscan, cor_val0,
          orbit, orbit_arr, mat_mn, ret, idx, r, log, log1, call, waitvars>>

scanvars == <<ANG, ANG_call, correctors, monitors, scan, xoy, pc, i, iscan, cor_val0,
              orbit, orbit_arr, mat_mn, ret, idx, r, log, log1>>

----------------------------------------------------------------------------
(* Bounds *)

MaxCor == 2
MaxMon == 2
MaxScan == 2

ScanValues == {0, 2}
AngBases == {-1, 1}
XoyValues == {<<"x">>, <<"y">>, <<"x", "y">>}

----------------------------------------------------------------------------
(* Numbers *)

Rat(a, b) == [num |-> a, den |-> b]
Zero == Rat(0, 1)
NaN == Rat(0, 0)

RECURSIVE SumTo(_, _)
SumTo(f, n) == IF n = 0 THEN 0 ELSE f[n] + SumTo(f, n - 1)

Min(a, b) == IF a < b THEN a ELSE b

\* np.zeros([m, n])
zeros(m, n) == [shape |-> <<m, n>>, a |-> [k \in 1..m |-> [c \in 1..n |-> Zero]]]

----------------------------------------------------------------------------
(* The machine: monitors respond linearly to the corrector settings.       *)

\* response of field fld of monitor k to corrector j
Optics(fld, k, j) == IF fld = "X" THEN k + j ELSE k - 2 * j

\* reading of a monitor with no corrector powered
Offset(fld, k) == IF fld = "X" THEN k ELSE 0 - k

\* getattr(elem, fld) for a monitor
MonitorField(ang, k, fld) ==
    Offset(fld, k)
      + SumTo([j \in DOMAIN ang |-> Optics(fld, k, j) * ang[j]], Cardinality(DOMAIN ang))

orb_field == <<"X", "Y">>
wait == 1

\* zip(range(len(xoy)), orb_field)
xyfld(xy) == [j \in 1..Min(Len(xy), Len(orb_field)) |-> <<j - 1, orb_field[j]>>]

\* a get_orbit that reads every orb_field whatever xoy is
get_orbit_all_fields(ang, mons, xy) ==
    LET nm == Len(mons)
    IN [p \in 1..(Len(orb_field) * nm) |->
           MonitorField(ang, mons[((p - 1) % nm) + 1], orb_field[((p - 1) \div nm) + 1])]

\* a get_orbit that loops over the monitors first: x, y, x, y, ...
get_orbit_interleaved(ang, mons, xy) ==
    LET nf == Len(xyfld(xy))
    IN [p \in 1..(nf * Len(mons)) |->
           MonitorField(ang, mons[((p - 1) \div nf) + 1], xyfld(xy)[((p - 1) % nf) + 1][2])]

\* get_orbit(monitors, **kws): one row of readings per zipped field, flattened
\* row by row (np.asarray(xys).flatten())
get_orbit(ang, mons, xy) ==
    LET nm == Len(mons)
        f == xyfld(xy)
    IN [p \in 1..(Len(f) * nm) |->
           MonitorField(ang, mons[((p - 1) % nm) + 1], f[((p - 1) \div nm) + 1][2])]

----------------------------------------------------------------------------
(* np.polyfit(x, y, 1)[0] on exact numbers.                                *)
(* With two distinct abscissae it is the least-squares slope.  With all    *)
(* abscissae equal to x0 the design matrix has rank 1 and lstsq returns    *)
(* the minimum-norm solution on the column-scaled matrix, whose slope is   *)
(* mean(y) / (2 x0); with x0 = 0 the column scaling divides 0 by 0.        *)

\* np.polyfit(x, y, 1)[1]: the intercept instead of the slope
polyfit_intercept(x, y) ==
    LET ns == Len(x)
        Sx == SumTo(x, ns)
        Sy == SumTo(y, ns)
        Sxx == SumTo([s \in 1..ns |-> x[s] * x[s]], ns)
        Sxy == SumTo([s \in 1..ns |-> x[s] * y[s]], ns)
        den == ns * Sxx - Sx * Sx
    IN IF den # 0 THEN Rat(Sy * Sxx - Sx * Sxy, den)
       ELSE IF x[1] # 0 THEN Rat(Sy, 2 * ns)
       ELSE NaN

polyfit_slope(x, y) ==
    LET ns == Len(x)
        Sx == SumTo(x, ns)
        Sy == SumTo(y, ns)
        Sxx == SumTo([s \in 1..ns |-> x[s] * x[s]], ns)
        Sxy == SumTo([s \in 1..ns |-> x[s] * y[s]], ns)
        den == ns * Sxx - Sx * Sx
    IN IF den # 0 THEN Rat(ns * Sxy - Sx * Sy, den)
       ELSE IF x[1] # 0 THEN Rat(Sy, 2 * ns * x[1])
       ELSE NaN

\* np.polyfit raises: TypeError on an empty x, LinAlgError when lstsq meets nan
polyfit_may_raise(x) == Len(x) = 0 \/ \A s \in 1..Len(x) : x[s] = 0

\* np.polyfit returns (a nan input may also come back as a nan result)
polyfit_may_return(x) == Len(x) > 0

\* [np.polyfit(scan, orbit_arr[:, k], 1)[0] for k in range(m)]
fit_column(x, arr, m) ==
    [k \in 1..m |-> polyfit_slope(x, [s \in 1..Len(x) |-> arr[s][k]])]

\* orbit_arr[iscan] = <vector>: numpy broadcasts a vector of the row's length
\* or of length 1, and raises ValueError otherwise
broadcastable(vec, m) == Len(vec) = m \/ Len(vec) = 1

row_assign(arr, s, vec, m) ==
    [arr EXCEPT ![s] = [k \in 1..m |-> IF Len(vec) = m THEN vec[k] ELSE vec[1]]]

\* mat_mn[:, i] = col
col_assign(mat, c, col) ==
    [mat EXCEPT !.a = [k \in DOMAIN mat.a |-> [mat.a[k] EXCEPT ![c] = col[k]]]]

----------------------------------------------------------------------------
(* get_index_grid(lattice, correctors, monitors, xoy)                      *)
(* A lattice is the sequence of its elements, each [type, pos].            *)

\* lattice.get_elements(type=t): the elements of that type, in lattice order
get_elements(lattice, t) == SelectSeq(lattice, LAMBDA e : e.type = t)

\* list.index(e): 0-based position of the first member equal to e
index(list, e) == (CHOOSE p \in 1..Len(list) :
                      list[p] = e /\ \A q \in 1..(p - 1) : list[q] # e) - 1

\* a row_idx that takes the y rows where the x rows are
row_idx_no_offset(all_bpms, mons, xy) ==
    LET bpm_idx == [p \in 1..Len(mons) |-> index(all_bpms, mons[p])]
        bpm_cnt == Len(all_bpms)
    IN IF xy = <<"x", "y">> THEN bpm_idx \o [p \in 1..Len(mons) |-> bpm_idx[p] + bpm_cnt]
       ELSE bpm_idx

\* lines 308-316: rows of the selected monitors in the global ORM (0-based)
row_idx(all_bpms, mons, xy) ==
    LET bpm_idx == [p \in 1..Len(mons) |-> index(all_bpms, mons[p])]
        bpm_cnt == Len(all_bpms)
        shifted == [p \in 1..Len(mons) |-> bpm_idx[p] + bpm_cnt]
    IN IF xy = <<"x", "y">> THEN bpm_idx \o shifted
       ELSE IF xy = <<"x">> THEN bpm_idx
       ELSE shifted

\* lines 302-317: np.ix_(row_idx, col_idx), as the pair of index lists
get_index_grid(lattice, cors, mons, xy) ==
    LET all_cors == get_elements(lattice, "HCOR") \o get_elements(lattice, "VCOR")
        all_bpms == get_elements(lattice, "BPM")
        col_idx == [p \in 1..Len(cors) |-> index(all_cors, cors[p])]
    IN [rows |-> row_idx(all_bpms, mons, xy), cols |-> col_idx]

----------------------------------------------------------------------------
(* Matrices of exact numbers: [num, den] stands for num / den, num a       *)
(* sequence of rows of integers.  den = 0: every entry is inf or nan.      *)

Rows(A) == Len(A)
Cols(A) == Len(A[1])

RECURSIVE Vec(_, _)
\* the sequence <<f[1], ..., f[n]>>, every member computed once
Vec(n, f) == IF n = 0 THEN <<>> ELSE Append(Vec(n - 1, f), f[n])

Transpose(A) ==
    Vec(Cols(A), [c \in 1..Cols(A) |-> Vec(Rows(A), [rr \in 1..Rows(A) |-> A[rr][c]])])

MatMul(A, B) ==
    Vec(Rows(A), [rr \in 1..Rows(A) |->
        Vec(Cols(B), [c \in 1..Cols(B) |->
            SumTo([k \in 1..Cols(A) |-> A[rr][k] * B[k][c]], Cols(A))])])

Scale(a, A) ==
    Vec(Rows(A), [rr \in 1..Rows(A) |-> Vec(Cols(A), [c \in 1..Cols(A) |-> a * A[rr][c]])])

\* A without row rr and column c
Minor(A, rr, c) ==
    Vec(Rows(A) - 1, [p \in 1..(Rows(A) - 1) |->
        Vec(Rows(A) - 1, [q \in 1..(Rows(A) - 1) |->
            A[IF p < rr THEN p ELSE p + 1][IF q < c THEN q ELSE q + 1]])])

RECURSIVE Det(_)
\* determinant of a square matrix, expanded along its first row
Det(A) ==
    IF Rows(A) = 0 THEN 1
    ELSE SumTo([c \in 1..Rows(A) |->
                   (IF c % 2 = 1 THEN 1 ELSE -1) * A[1][c] * Det(Minor(A, 1, c))],
               Rows(A))

\* adjugate: Adj(A) * A = Det(A) * identity
Adj(A) ==
    Vec(Rows(A), [rr \in 1..Rows(A) |->
        Vec(Rows(A), [c \in 1..Rows(A) |->
            (IF (rr + c) % 2 = 0 THEN 1 ELSE -1) * Det(Minor(A, c, rr))])])

ZeroMat(m, n) == Vec(m, [rr \in 1..m |-> Vec(n, [c \in 1..n |-> 0])])

\* the smaller Gram matrix of M: its eigenvalues are the squares of the
\* min(m.shape) singular values s of linalg.svd(m)
Gram(M) == IF Rows(M) >= Cols(M) THEN MatMul(Transpose(M), M)
           ELSE MatMul(M, Transpose(M))

\* inverse_matrix(m), lines 213-218.  With U, s, V = svd(m) the product
\* V.T * S_inv * U.T is the sum over k < min_shape of v_k u_k^T / s[k].
\* With every s[k] nonzero that is adj(G) M^T / det(G) (or M^T adj(G) /
\* det(G) for a wide m), G the smaller Gram matrix and det(G) the product
\* of the s[k]^2.  With some s[k] = 0, 1.0/s holds inf and so does every
\* entry of the product.
inverse_matrix(m) ==
    LET M == m.num
        G == Gram(M)
        prod_s2 == Det(G)
        VSU == IF Rows(M) >= Cols(M) THEN MatMul(Adj(G), Transpose(M))
               ELSE MatMul(Transpose(M), Adj(G))
    IN IF m.den = 0 \/ prod_s2 = 0
       THEN [num |-> ZeroMat(Cols(M), Rows(M)), den |-> 0]
       ELSE [num |-> Scale(m.den, VSU), den |-> prod_s2]

\* np.dot(m_inv, orbit_diff) for a vector orbit_diff; shapes that do not
\* align raise ValueError
dot(A, d) ==
    IF Cols(A.num) # Len(d) THEN [raise |-> "ValueError"]
    ELSE [num |-> Vec(Rows(A.num), [rr \in 1..Rows(A.num) |->
                      IF A.den = 0 THEN 0
                      ELSE SumTo([c \in 1..Len(d) |-> A.num[rr][c] * d[c]], Len(d))]),
          den |-> A.den]

\* a get_correctors_settings that inverts whatever the flag says
get_correctors_settings_always_inverts(orm, orbit_diff, inverse) ==
    dot(inverse_matrix(orm), orbit_diff)

\* get_correctors_settings(orm, orbit_diff, inverse), lines 272-277
get_correctors_settings(orm, orbit_diff, inverse) ==
    LET m_inv == IF ~inverse THEN inverse_matrix(orm) ELSE orm
    IN dot(m_inv, orbit_diff)

----------------------------------------------------------------------------
(* get_orm(correctors, monitors, **kws)                                    *)

Ev(op, c, v) == [op |-> op, cor |-> c, val |-> v]

NoMat == [shape |-> <<0, 0>>, a |-> <<>>]

\* lines 73-91
get_orm_begin ==
    /\ pc = "idle"
    /\ mat_mn' = zeros(Len(monitors) * Len(xoy), Len(correctors))
    /\ i' = 1
    /\ pc' = "cor_loop"
    /\ UNCHANGED <<ANG, ANG_call, correctors, monitors, scan, xoy, iscan, cor_val0,
                   orbit_arr, ret, idx, r, log, log1, call, orbit, waitvars>>

\* lines 92-94: next corrector, remember its value
get_orm_next_cor ==
    /\ pc = "cor_loop"
    /\ i <= Len(correctors)
    /\ orbit_arr' = [s \in 1..Len(scan) |-> [k \in 1..mat_mn.shape[1] |-> 0]]
    /\ cor_val0' = ANG[correctors[i]]
    /\ log' = Append(log, Ev("get", i, ANG[correctors[i]]))
    /\ iscan' = 1
    /\ pc' = "scan_loop"
    /\ UNCHANGED <<ANG, ANG_call, correctors, monitors, scan, xoy, i, mat_mn, ret,
                   idx, r, log1, call, orbit, waitvars>>

\* a get_orm_set that goes on to read the orbit without sleeping
get_orm_set_no_sleep ==
    /\ pc = "scan_loop"
    /\ iscan <= Len(scan)
    /\ ANG' = [ANG EXCEPT ![correctors[i]] = scan[iscan]]
    /\ log' = Append(log, Ev("set", i, scan[iscan]))
    /\ pc' = "get_orbit"
    /\ UNCHANGED <<ANG_call, correctors, monitors, scan, xoy, i, iscan, cor_val0,
                   orbit_arr, mat_mn, ret, idx, r, log1, call, orbit, waitvars>>

\* lines 95-102: write the scan value
get_orm_set ==
    /\ pc = "scan_loop"
    /\ iscan <= Len(scan)
    /\ ANG' = [ANG EXCEPT ![correctors[i]] = scan[iscan]]
    /\ log' = Append(log, Ev("set", i, scan[iscan]))
    /\ pc' = "sleep"
    /\ UNCHANGED <<ANG_call, correctors, monitors, scan, xoy, i, iscan, cor_val0,
                   orbit_arr, mat_mn, ret, idx, r, log1, call, orbit, waitvars>>

\* line 103
get_orm_sleep ==
    /\ pc = "sleep"
    /\ log' = Append(log, Ev("sleep", i, wait))
    /\ pc' = "get_orbit"
    /\ UNCHANGED <<ANG, ANG_call, correctors, monitors, scan, xoy, i, iscan, cor_val0,
                   orbit_arr, mat_mn, ret, idx, r, log1, call, orbit, waitvars>>

\* line 104
get_orm_read ==
    /\ pc = "get_orbit"
    /\ orbit' = get_orbit(ANG, monitors, xoy)
    /\ LET m == mat_mn.shape[1]
       IN /\ log' = Append(log, Ev("read", i, Len(orbit')))
          /\ IF broadcastable(orbit', m)
             THEN /\ orbit_arr' = row_assign(orbit_arr, iscan, orbit', m)
                  /\ iscan' = iscan + 1
                  /\ pc' = "scan_loop"
             ELSE /\ pc' = "raised"
                  /\ UNCHANGED <<orbit_arr, iscan>>
    /\ UNCHANGED <<ANG, ANG_call, correctors, monitors, scan, xoy, i, cor_val0,
                   mat_mn, ret, idx, r, log1, call, waitvars>>

\* lines 95-102: the write of the scan value raises; the failed write may or
\* may not have reached the corrector, and nothing catches the error
get_orm_set_raise ==
    /\ pc = "scan_loop"
    /\ iscan <= Len(scan)
    /\ \E reached \in BOOLEAN :
          ANG' = IF reached THEN [ANG EXCEPT ![correctors[i]] = scan[iscan]] ELSE ANG
    /\ pc' = "raised_write"
    /\ UNCHANGED <<ANG_call, correctors, monitors, scan, xoy, i, iscan, cor_val0,
                   orbit_arr, mat_mn, ret, idx, r, log, log1, call, orbit, waitvars>>

\* a failed orbit read that writes the remembered value back before the error
\* leaves get_orm
get_orm_read_raise_restoring ==
    /\ pc = "get_orbit"
    /\ ANG' = [ANG EXCEPT ![correctors[i]] = cor_val0]
    /\ pc' = "raised_read"
    /\ UNCHANGED <<ANG_call, correctors, monitors, scan, xoy, i, iscan, cor_val0,
                   orbit_arr, mat_mn, ret, idx, r, log, log1, call, orbit, waitvars>>

\* line 104: get_orbit raises; nothing catches the error
get_orm_read_raise ==
    /\ pc = "get_orbit"
    /\ pc' = "raised_read"
    /\ UNCHANGED <<ANG, ANG_call, correctors, monitors, scan, xoy, i, iscan, cor_val0,
                   orbit_arr, mat_mn, ret, idx, r, log, log1, call, orbit, waitvars>>

\* line 109: fit the column
get_orm_fit ==
    /\ pc = "scan_loop"
    /\ iscan > Len(scan)
    /\ mat_mn.shape[1] = 0 \/ polyfit_may_return(scan)
    /\ mat_mn' = col_assign(mat_mn, i, fit_column(scan, orbit_arr, mat_mn.shape[1]))
    /\ pc' = "reset"
    /\ UNCHANGED <<ANG, ANG_call, correctors, monitors, scan, xoy, i, iscan, cor_val0,
                   orbit_arr, ret, idx, r, log, log1, call, orbit, waitvars>>

\* line 109: np.polyfit raises
get_orm_fit_raise ==
    /\ pc = "scan_loop"
    /\ iscan > Len(scan)
    /\ mat_mn.shape[1] > 0
    /\ polyfit_may_raise(scan)
    /\ pc' = "raised"
    /\ UNCHANGED <<ANG, ANG_call, correctors, monitors, scan, xoy, i, iscan, cor_val0,
                   orbit_arr, mat_mn, ret, idx, r, log, log1, call, orbit, waitvars>>

\* a get_orm_reset that moves on without writing the corrector
get_orm_reset_lost ==
    /\ pc = "reset"
    /\ i' = i + 1
    /\ pc' = "cor_loop"
    /\ UNCHANGED <<ANG, ANG_call, correctors, monitors, scan, xoy, iscan, cor_val0,
                   orbit_arr, mat_mn, ret, idx, r, log, log1, call, orbit, waitvars>>

\* line 112: write the remembered value back
get_orm_reset ==
    /\ pc = "reset"
    /\ ANG' = [ANG EXCEPT ![correctors[i]] = cor_val0]
    /\ log' = Append(log, Ev("set", i, cor_val0))
    /\ i' = i + 1
    /\ pc' = "cor_loop"
    /\ UNCHANGED <<ANG_call, correctors, monitors, scan, xoy, iscan, cor_val0,
                   orbit_arr, mat_mn, ret, idx, r, log1, call, orbit, waitvars>>

\* line 113
get_orm_return ==
    /\ pc = "cor_loop"
    /\ i > Len(correctors)
    /\ ret' = mat_mn
    /\ pc' = "done"
    /\ UNCHANGED <<ANG, ANG_call, correctors, monitors, scan, xoy, i, iscan, cor_val0,
                   orbit_arr, mat_mn, idx, r, log, log1, call, orbit, waitvars>>

----------------------------------------------------------------------------
(* get_orm_for_one_corrector(corrector, monitors, idx=.., ncor=.., **kws), *)
(* called with the corrector correctors[idx] once get_orm has returned.    *)

\* lines 157-170
one_cor_begin(ix) ==
    /\ pc = "done"
    /\ ix \in 1..Len(correctors)
    /\ idx' = ix
    /\ orbit_arr' = [s \in 1..Len(scan) |-> [k \in 1..(Len(monitors) * Len(xoy)) |-> 0]]
    /\ cor_val0' = ANG[correctors[ix]]
    /\ log1' = <<Ev("get", ix, ANG[correctors[ix]])>>
    /\ iscan' = 1
    /\ pc' = "one_scan_loop"
    /\ UNCHANGED <<ANG, ANG_call, correctors, monitors, scan, xoy, i, mat_mn, ret, r,
                   log, call, orbit, waitvars>>

\* lines 171-178
one_cor_set ==
    /\ pc = "one_scan_loop"
    /\ iscan <= Len(scan)
    /\ ANG' = [ANG EXCEPT ![correctors[idx]] = scan[iscan]]
    /\ log1' = Append(log1, Ev("set", idx, scan[iscan]))
    /\ pc' = "one_sleep"
    /\ UNCHANGED <<ANG_call, correctors, monitors, scan, xoy, i, iscan, cor_val0,
                   orbit_arr, mat_mn, ret, idx, r, log, call, orbit, waitvars>>

\* line 179
one_cor_sleep ==
    /\ pc = "one_sleep"
    /\ log1' = Append(log1, Ev("sleep", idx, wait))
    /\ pc' = "one_get_orbit"
    /\ UNCHANGED <<ANG, ANG_call, correctors, monitors, scan, xoy, i, iscan, cor_val0,
                   orbit_arr, mat_mn, ret, idx, r, log, call, orbit, waitvars>>

\* line 180
one_cor_read ==
    /\ pc = "one_get_orbit"
    /\ orbit' = get_orbit(ANG, monitors, xoy)
    /\ LET m == Len(monitors) * Len(xoy)
       IN /\ log1' = Append(log1, Ev("read", idx, Len(orbit')))
          /\ IF broadcastable(orbit', m)
             THEN /\ orbit_arr' = row_assign(orbit_arr, iscan, orbit', m)
                  /\ iscan' = iscan + 1
                  /\ pc' = "one_scan_loop"
             ELSE /\ pc' = "one_raised"
                  /\ UNCHANGED <<orbit_arr, iscan>>
    /\ UNCHANGED <<ANG, ANG_call, correctors, monitors, scan, xoy, i, cor_val0,
                   mat_mn, ret, idx, r, log, call, waitvars>>

\* lines 171-178: the write of the scan value raises
one_cor_set_raise ==
    /\ pc = "one_scan_loop"
    /\ iscan <= Len(scan)
    /\ \E reached \in BOOLEAN :
          ANG' = IF reached THEN [ANG EXCEPT ![correctors[idx]] = scan[iscan]] ELSE ANG
    /\ pc' = "one_raised_write"
    /\ UNCHANGED <<ANG_call, correctors, monitors, scan, xoy, i, iscan, cor_val0,
                   orbit_arr, mat_mn, ret, idx, r, log, log1, call, orbit, waitvars>>

\* line 180: get_orbit raises
one_cor_read_raise ==
    /\ pc = "one_get_orbit"
    /\ pc' = "one_raised_read"
    /\ UNCHANGED <<ANG, ANG_call, correctors, monitors, scan, xoy, i, iscan, cor_val0,
                   orbit_arr, mat_mn, ret, idx, r, log, log1, call, orbit, waitvars>>

\* a one_cor_reset that moves on without writing the corrector
one_cor_reset_lost ==
    /\ pc = "one_scan_loop"
    /\ iscan > Len(scan)
    /\ pc' = "one_polyfit"
    /\ UNCHANGED <<ANG, ANG_call, correctors, monitors, scan, xoy, i, iscan, cor_val0,
                   orbit_arr, mat_mn, ret, idx, r, log, log1, call, orbit, waitvars>>

\* lines 182-188: write the remembered value back
one_cor_reset ==
    /\ pc = "one_scan_loop"
    /\ iscan > Len(scan)
    /\ ANG' = [ANG EXCEPT ![correctors[idx]] = cor_val0]
    /\ log1' = Append(log1, Ev("set", idx, cor_val0))
    /\ pc' = "one_polyfit"
    /\ UNCHANGED <<ANG_call, correctors, monitors, scan, xoy, i, iscan, cor_val0,
                   orbit_arr, mat_mn, ret, idx, r, log, call, orbit, waitvars>>

\* lines 190-192
one_cor_return ==
    /\ pc = "one_polyfit"
    /\ Len(monitors) * Len(xoy) = 0 \/ polyfit_may_return(scan)
    /\ r' = fit_column(scan, orbit_arr, Len(monitors) * Len(xoy))
    /\ pc' = "one_done"
    /\ UNCHANGED <<ANG, ANG_call, correctors, monitors, scan, xoy, i, iscan, cor_val0,
                   orbit_arr, mat_mn, ret, idx, log, log1, call, orbit, waitvars>>

\* line 190: np.polyfit raises
one_cor_fit_raise ==
    /\ pc = "one_polyfit"
    /\ Len(monitors) * Len(xoy) > 0
    /\ polyfit_may_raise(scan)
    /\ pc' = "one_raised"
    /\ UNCHANGED <<ANG, ANG_call, correctors, monitors, scan, xoy, i, iscan, cor_val0,
                   orbit_arr, mat_mn, ret, idx, r, log, log1, call, orbit, waitvars>>

----------------------------------------------------------------------------
(* waitStableOrbit(reforbit, **kwargs), phyutil/phylib/libCore.py.         *)
(* Times are whole seconds; std values are in units of 1e-7.               *)

MaxWait == 3

MinWaits == {0, 2}
Steps == {1, 2}

\* the std values getOrbit() - reforbit can have: below and above diffstd
StdValues == {0, 2}

\* kwargs.get('diffstd', 1e-7), line 466
diffstd == 1

\* time.sleep(n) and the orbit read after it take n seconds or a little more
Elapse(n) == {n, n + 1}

None == [none |-> TRUE]

\* no wait is running
NoWait ==
    /\ wpc = "idle"
    /\ kwargs = <<>>
    /\ now = 0
    /\ t0 = 0
    /\ dt = 0
    /\ dv = 0
    /\ dvstd = <<>>
    /\ timeout = FALSE
    /\ wret = None

\* line 473
wait_begin ==
    /\ wpc = "called"
    /\ t0' = now
    /\ wpc' = "minwait"
    /\ UNCHANGED <<scanvars, call, kwargs, now, dt, dv, dvstd, timeout, wret>>

\* line 474
wait_minwait ==
    /\ wpc = "minwait"
    /\ now' \in {now + e : e \in Elapse(kwargs.minwait)}
    /\ wpc' = "getOrbit"
    /\ UNCHANGED <<scanvars, call, kwargs, t0, dt, dv, dvstd, timeout, wret>>

\* lines 475-477
wait_first_read ==
    /\ wpc = "getOrbit"
    /\ dv' \in StdValues
    /\ dvstd' = <<dv'>>
    /\ timeout' = FALSE
    /\ wpc' = "while"
    /\ UNCHANGED <<scanvars, call, kwargs, now, t0, dt, wret>>

\* lines 479-480: the loop condition holds, sleep a step
wait_sleep ==
    /\ wpc = "while"
    /\ dv < diffstd
    /\ now' \in {now + e : e \in Elapse(kwargs.step)}
    /\ wpc' = "slept"
    /\ UNCHANGED <<scanvars, call, kwargs, t0, dt, dv, dvstd, timeout, wret>>

\* lines 481-484
wait_check ==
    /\ wpc = "slept"
    /\ dt' = now - t0
    /\ IF dt' > kwargs.maxwait
       THEN /\ timeout' = TRUE
            /\ wpc' = "return"
       ELSE /\ wpc' = "poll"
            /\ UNCHANGED timeout
    /\ UNCHANGED <<scanvars, call, kwargs, now, t0, dv, dvstd, wret>>

\* lines 485-486
wait_poll ==
    /\ wpc = "poll"
    /\ dv' \in StdValues
    /\ dvstd' = Append(dvstd, dv')
    /\ wpc' = "while"
    /\ UNCHANGED <<scanvars, call, kwargs, now, t0, dt, timeout, wret>>

\* line 479: the loop condition fails
wait_exit ==
    /\ wpc = "while"
    /\ ~(dv < diffstd)
    /\ wpc' = "return"
    /\ UNCHANGED <<scanvars, call, kwargs, now, t0, dt, dv, dvstd, timeout, wret>>

\* lines 488-489
wait_return ==
    /\ wpc = "return"
    /\ wret' = IF kwargs.diffstd_list THEN <<timeout, dvstd>> ELSE None
    /\ wpc' = "returned"
    /\ UNCHANGED <<scanvars, call, kwargs, now, t0, dt, dv, dvstd, timeout>>

----------------------------------------------------------------------------
(* getElements and getPvList, phyutil/phylib/libCore.py.                   *)
(* An element is a record: its name (a sequence of characters), family,    *)
(* virtual flag, class, and the list pv(field=.., handle=..) gives for the *)
(* field and handle asked for.  A group is a string (name, family or       *)
(* pattern), a list of names, an element object or a list of them.         *)

MaxElem == 2
MaxList == 2

Digits == <<"1", "2", "3", "4", "5">>

family(k) == IF k % 2 = 1 THEN "B" ELSE "Q"

IsNone(e) == "none" \in DOMAIN e

RECURSIVE fnmatch(_, _)
\* fnmatch.fnmatch(name, pat) for patterns of characters and '*'
fnmatch(name, pat) ==
    IF pat = <<>> THEN name = <<>>
    ELSE IF Head(pat) = "*"
         THEN fnmatch(name, Tail(pat)) \/ (name # <<>> /\ fnmatch(Tail(name), pat))
         ELSE name # <<>> /\ Head(name) = Head(pat) /\ fnmatch(Tail(name), Tail(pat))

\* Lattice._find_exact_element(name): the element of that name, or None
find_exact_element(lat, name) ==
    IF \E k \in DOMAIN lat : lat[k].name = name
    THEN lat[CHOOSE k \in DOMAIN lat : lat[k].name = name]
    ELSE None

\* Lattice.getElementList(group): for a string the element of that name,
\* else the members of the family of that name, else the elements whose name
\* matches the pattern; for a list of names the element of each name, None
\* where there is none
getElementList(lat, group) ==
    IF group.kind = "str"
    THEN IF ~IsNone(find_exact_element(lat, group.s))
         THEN <<find_exact_element(lat, group.s)>>
         ELSE IF \E k \in DOMAIN lat : <<lat[k].family>> = group.s
              THEN SelectSeq(lat, LAMBDA e : <<e.family>> = group.s)
              ELSE SelectSeq(lat, LAMBDA e : fnmatch(e.name, group.s))
    ELSE [j \in DOMAIN group.l |-> find_exact_element(lat, group.l[j])]

\* a getElements that does not drop the virtual elements it finds
getElements_keeps_virtual(lat, group, include_virtual) ==
    IF group.kind = "elem" THEN <<group.e>>
    ELSE IF group.kind = "elems" THEN group.l
    ELSE getElementList(lat, group)

\* getElements(group, include_virtual), lines 97-114, on the lattice lat
getElements(lat, group, include_virtual) ==
    IF group.kind = "elem" THEN <<group.e>>
    ELSE IF group.kind = "elems" THEN group.l
    ELSE SelectSeq(getElementList(lat, group),
                   LAMBDA e : IsNone(e) \/ include_virtual \/ ~e.virtual)

Returned(v) == [raise |-> "", ret |-> v]
Raised(x) == [raise |-> x, ret |-> <<>>]

RECURSIVE pv_loop(_, _, _, _)
\* the loop of getPvList, lines 156-169; a None among the elements fails at
\* elem.name in line 158
pv_loop(elemlst, pvlst, first_only, compress_empty) ==
    IF elemlst = <<>> THEN Returned(pvlst)
    ELSE LET elem == Head(elemlst)
         IN IF IsNone(elem) THEN Raised("AttributeError")
            ELSE IF elem.cls # "CaElement" THEN Raised("ValueError")
            ELSE IF Len(elem.pv) = 0 /\ ~compress_empty THEN Raised("ValueError")
            ELSE IF Len(elem.pv) > 1 /\ ~first_only THEN Raised("ValueError")
            ELSE IF Len(elem.pv) = 0 THEN Raised("IndexError")
            ELSE pv_loop(Tail(elemlst), Append(pvlst, elem.pv[1]),
                         first_only, compress_empty)

\* getPvList(elems, field, handle, first_only=.., compress_empty=..),
\* lines 150-169
getPvList(lat, elems, first_only, compress_empty) ==
    pv_loop(getElements(lat, elems, FALSE), <<>>, first_only, compress_empty)

----------------------------------------------------------------------------
(* CaElement with keyword arguments kws, as tests/test_element.py          *)
(* exercises it.  A property read from a PV record is a JSON string (a     *)
(* sequence of characters) or a JSON number.                               *)

Str(chars) == [t |-> "str", v |-> chars]
Num(n) == [t |-> "num", v |-> n]

DigitChars == <<"0", "1", "2", "3", "4", "5", "6", "7", "8", "9">>

DigitVal(c) == (CHOOSE d \in DOMAIN DigitChars : DigitChars[d] = c) - 1

RECURSIVE int_str(_)
\* int('...') of a string of digits
int_str(chars) ==
    IF chars = <<>> THEN 0
    ELSE 10 * int_str(SubSeq(chars, 1, Len(chars) - 1)) + DigitVal(chars[Len(chars)])

RECURSIVE Pow10(_)
Pow10(n) == IF n = 0 THEN 1 ELSE 10 * Pow10(n - 1)

\* int(x)
int(x) == IF x.t = "num" THEN x.v ELSE int_str(x.v)

\* float(x): a decimal string is the digits over a power of ten
float(x) ==
    IF x.t = "num" THEN Rat(x.v, 1)
    ELSE LET digits == SelectSeq(x.v, LAMBDA c : c # ".")
             point == {k \in DOMAIN x.v : x.v[k] = "."}
             decimals == IF point = {} THEN 0
                         ELSE Len(x.v) - (CHOOSE k \in point : TRUE)
         IN Rat(int_str(digits), Pow10(decimals))

Inf == Rat(1, 0)

\* the element a constructor call with no argument gives
DefaultElement ==
    [name |-> None, index |-> -1, length |-> Rat(0, 1), family |-> None,
     sb |-> Inf, se |-> Inf, active |-> TRUE, virtual |-> FALSE,
     group |-> {}, pvs |-> <<>>, tags |-> <<>>]

\* the properties set from keyword arguments or from the properties of a PV
update_properties(elem, props) ==
    [elem EXCEPT !.name = props.name,
                 !.index = int(props.index),
                 !.length = float(props.length),
                 !.family = props.family,
                 !.sb = float(props.sb),
                 !.se = float(props.se),
                 !.group = {props.family}]

\* the set of the members of a list
set(l) == {l[k] : k \in DOMAIN l}

\* a process_pv that does not put the family in the element's group
process_pv_no_group(elem, pv_name, pv_props, pv_tags) ==
    [update_properties(elem, pv_props) EXCEPT
         !.group = {},
         !.pvs = Append(@, pv_name),
         !.tags = [n \in {pv_name} |-> set(pv_tags)]]

\* one PV record added to an element: its properties, its name, its tags
process_pv(elem, pv_name, pv_props, pv_tags) ==
    [update_properties(elem, pv_props) EXCEPT
         !.pvs = Append(@, pv_name),
         !.tags = [n \in {pv_name} |-> set(pv_tags)]]

\* CaElement with keyword arguments kws: pv_data as a dict, pv_data as a list, or properties
CaElement(kws) ==
    IF "pv_data" \in DOMAIN kws
    THEN IF kws.pv_data.kind = "dict"
         THEN process_pv(DefaultElement, kws.pv_data.d.pv_name,
                         kws.pv_data.d.pv_props, kws.pv_data.d.pv_tags)
         ELSE process_pv(DefaultElement, kws.pv_data.l[1], kws.pv_data.l[2],
                         kws.pv_data.l[3])
    ELSE update_properties(DefaultElement, kws)

\* elem.pv()
pv(elem) == elem.pvs

----------------------------------------------------------------------------
(* The scan specification: get_orm on every bounded input, then            *)
(* get_orm_for_one_corrector on one of its correctors.                     *)

RECURSIVE SeqsUpTo(_, _)
SeqsUpTo(S, n) ==
    IF n = 0 THEN {<<>>}
    ELSE LET shorter == SeqsUpTo(S, n - 1)
         IN shorter \cup {Append(q, v) : q \in shorter, v \in S}

\* sequences of at most n distinct members of S
DistinctSeqs(S, n) ==
    {q \in SeqsUpTo(S, n) : \A a, b \in DOMAIN q : a # b => q[a] # q[b]}

NoCall == [fn |-> "none", args |-> <<>>, ret |-> <<>>]

\* the machine has MaxCor correctors; get_orm is given some of them in any
\* order, the first monitors, and a scan of up to MaxScan values
InitOrm ==
    /\ ANG \in {[j \in 1..MaxCor |-> base + j] : base \in AngBases}
    /\ ANG_call = ANG
    /\ correctors \in DistinctSeqs(1..MaxCor, MaxCor)
    /\ monitors \in {[k \in 1..n |-> k] : n \in 0..MaxMon}
    /\ scan \in SeqsUpTo(ScanValues, MaxScan)
    /\ xoy \in XoyValues
    /\ pc = "idle"
    /\ i = 0
    /\ iscan = 0
    /\ cor_val0 = 0
    /\ orbit = <<>>
    /\ orbit_arr = <<>>
    /\ mat_mn = NoMat
    /\ ret = NoMat
    /\ idx = 0
    /\ r = <<>>
    /\ log = <<>>
    /\ log1 = <<>>
    /\ call = NoCall
    /\ NoWait

NextOrm ==
    \/ get_orm_begin
    \/ get_orm_next_cor
    \/ get_orm_set
    \/ get_orm_sleep
    \/ get_orm_read
    \/ get_orm_set_raise
    \/ get_orm_read_raise
    \/ get_orm_fit
    \/ get_orm_fit_raise
    \/ get_orm_reset
    \/ get_orm_return
    \/ \E ix \in 1..MaxCor : one_cor_begin(ix)
    \/ one_cor_set
    \/ one_cor_sleep
    \/ one_cor_read
    \/ one_cor_set_raise
    \/ one_cor_read_raise
    \/ one_cor_reset
    \/ one_cor_return
    \/ one_cor_fit_raise

Spec == InitOrm /\ [][NextOrm]_vars

----------------------------------------------------------------------------
(* The pure functions, each applied once to every bounded input.           *)

MaxLat == 4
MaxSel == 2
MaxDim == 2

ElemTypes == {"HCOR", "VCOR", "BPM"}
EntryValues == {0, 1}

\* no scan is running
NoScan ==
    /\ ANG = <<>>
    /\ ANG_call = <<>>
    /\ correctors = <<>>
    /\ monitors = <<>>
    /\ scan = <<>>
    /\ xoy = <<"x", "y">>
    /\ pc = "idle"
    /\ i = 0
    /\ iscan = 0
    /\ cor_val0 = 0
    /\ orbit = <<>>
    /\ orbit_arr = <<>>
    /\ mat_mn = NoMat
    /\ ret = NoMat
    /\ idx = 0
    /\ r = <<>>
    /\ log = <<>>
    /\ log1 = <<>>

Lattices ==
    {[p \in 1..Len(ts) |-> [type |-> ts[p], pos |-> p]] : ts \in SeqsUpTo(ElemTypes, MaxLat)}

Members(lattice, types) == {lattice[p] : p \in {q \in 1..Len(lattice) : lattice[q].type \in types}}

InitGrid ==
    /\ NoScan
    /\ NoWait
    /\ call \in {[fn |-> "lattice", args |-> <<lat>>, ret |-> <<>>] : lat \in Lattices}

\* get_index_grid on correctors and monitors of the lattice (list.index
\* raises ValueError for any other element)
get_index_grid_call ==
    /\ call.fn = "lattice"
    /\ LET lattice == call.args[1]
       IN \E cors \in SeqsUpTo(Members(lattice, {"HCOR", "VCOR"}), MaxSel),
             mons \in SeqsUpTo(Members(lattice, {"BPM"}), MaxSel),
             xy \in XoyValues :
             call' = [fn |-> "get_index_grid",
                      args |-> <<lattice, cors, mons, xy>>,
                      ret |-> get_index_grid(lattice, cors, mons, xy)]
    /\ UNCHANGED <<scanvars, waitvars>>

NextGrid == get_index_grid_call

SpecGrid == InitGrid /\ [][NextGrid]_vars

IntMat(M) == [num |-> M, den |-> 1]

Matrices ==
    UNION {[1..m -> [1..n -> EntryValues]] : m \in 1..MaxDim, n \in 1..MaxDim}

\* orbit differences of m entries
DiffVectors(m) ==
    {[k \in 1..m |-> 1], [k \in 1..m |-> IF k = 1 THEN 2 ELSE -1], [k \in 1..m |-> 0 - k]}

InitInv ==
    /\ NoScan
    /\ NoWait
    /\ call \in {[fn |-> "matrix", args |-> <<IntMat(M)>>, ret |-> <<>>] : M \in Matrices}

inverse_matrix_call ==
    /\ call.fn = "matrix"
    /\ call' = [fn |-> "inverse_matrix",
                args |-> call.args,
                ret |-> inverse_matrix(call.args[1])]
    /\ UNCHANGED <<scanvars, waitvars>>

\* get_correctors_settings on an ORM (inverse=False) or on an inverted ORM
\* (inverse=True), with an orbit difference of one entry per ORM row
get_correctors_settings_call ==
    /\ call.fn = "matrix"
    /\ \E inverse \in BOOLEAN, d \in DiffVectors(Rows(call.args[1].num)) :
          LET orm == IF inverse THEN inverse_matrix(call.args[1]) ELSE call.args[1]
          IN call' = [fn |-> "get_correctors_settings",
                      args |-> <<orm, d, inverse>>,
                      ret |-> get_correctors_settings(orm, d, inverse)]
    /\ UNCHANGED <<scanvars, waitvars>>

NextInv ==
    \/ inverse_matrix_call
    \/ get_correctors_settings_call

SpecInv == InitInv /\ [][NextInv]_vars

----------------------------------------------------------------------------
(* waitStableOrbit on every bounded choice of its keyword arguments, with  *)
(* an orbit that is stable or not at each read.                            *)

InitWait ==
    /\ NoScan
    /\ call = NoCall
    /\ wpc = "called"
    /\ kwargs \in [minwait : MinWaits, maxwait : 1..MaxWait, step : Steps,
                    diffstd_list : BOOLEAN]
    /\ now = 0
    /\ t0 = 0
    /\ dt = 0
    /\ dv = 0
    /\ dvstd = <<>>
    /\ timeout = FALSE
    /\ wret = None

NextWait ==
    \/ wait_begin
    \/ wait_minwait
    \/ wait_first_read
    \/ wait_sleep
    \/ wait_check
    \/ wait_poll
    \/ wait_exit
    \/ wait_return

SpecWait == InitWait /\ [][NextWait]_vars

----------------------------------------------------------------------------
(* getElements and getPvList on every bounded lattice and group.           *)

\* element number k of a lattice: what it is and how many PVs it has
Element(k, virtual, cls, npv) ==
    [name |-> <<family(k), Digits[k]>>, family |-> family(k), virtual |-> virtual,
     cls |-> cls, pv |-> [j \in 1..npv |-> <<family(k), Digits[k], Digits[j]>>]]

ElementsAt(k) ==
    {Element(k, v, "AbstractElement", 0) : v \in BOOLEAN}
      \cup {Element(k, v, "CaElement", n) : v \in BOOLEAN, n \in 0..2}

RECURSIVE LatticesOf(_)
\* the lattices of n elements
LatticesOf(n) ==
    IF n = 0 THEN {<<>>}
    ELSE {Append(lat, e) : lat \in LatticesOf(n - 1), e \in ElementsAt(n)}

Names == {<<family(k), Digits[k]>> : k \in 1..MaxElem}

Groups(lat) ==
    {[kind |-> "str", s |-> n] : n \in Names \cup {<<"B">>, <<"Q">>, <<"B", "*">>, <<"*">>}}
      \cup {[kind |-> "names", l |-> l] : l \in SeqsUpTo(Names, MaxList) \ {<<>>}}
      \cup {[kind |-> "elem", e |-> lat[k]] : k \in DOMAIN lat}
      \cup {[kind |-> "elems", l |-> [j \in DOMAIN q |-> lat[q[j]]]] :
               q \in SeqsUpTo(DOMAIN lat, MaxList)}

InitCore ==
    /\ NoScan
    /\ NoWait
    /\ \E n \in 0..MaxElem : \E lat \in LatticesOf(n) : \E group \in Groups(lat) :
          call = [fn |-> "libCore", args |-> <<lat, group>>, ret |-> <<>>]

getElements_call ==
    /\ call.fn = "libCore"
    /\ \E include_virtual \in BOOLEAN :
          call' = [fn |-> "getElements",
                   args |-> call.args \o <<include_virtual>>,
                   ret |-> getElements(call.args[1], call.args[2], include_virtual)]
    /\ UNCHANGED <<scanvars, waitvars>>

getPvList_call ==
    /\ call.fn = "libCore"
    /\ \E first_only, compress_empty \in BOOLEAN :
          call' = [fn |-> "getPvList",
                   args |-> call.args \o <<first_only, compress_empty>>,
                   ret |-> getPvList(call.args[1], call.args[2],
                                     first_only, compress_empty)]
    /\ UNCHANGED <<scanvars, waitvars>>

NextCore ==
    \/ getElements_call
    \/ getPvList_call

SpecCore == InitCore /\ [][NextCore]_vars

----------------------------------------------------------------------------
(* CaElement built in the three ways from every bounded PV record.         *)

IndexValues == {Str(<<"7">>), Str(<<"1", "2">>), Num(3)}
FloatValues == {Str(<<"0", ".", "5">>), Str(<<"1", "2", ".", "2", "5">>), Num(1)}
TagLists == {<<>>, <<"t1">>, <<"t1", "t1">>, <<"t1", "t2">>}

PvRecords ==
    [pv_name : {"PV1"},
     pv_props : [name : {"E1"}, index : IndexValues, length : FloatValues,
                 family : {"BPM", "HCOR"}, sb : FloatValues, se : FloatValues],
     pv_tags : TagLists]

Unset == [unset |-> TRUE]

InitElem ==
    /\ NoScan
    /\ NoWait
    /\ \E pv_record \in PvRecords :
          call = [fn |-> "CaElement", args |-> <<pv_record>>,
                  ret |-> [dict |-> Unset, list |-> Unset, props |-> Unset]]

\* test_init_with_data_dict: CaElement(pv_data=pv_record)
CaElement_dict_call ==
    /\ call.fn = "CaElement"
    /\ call.ret.dict = Unset
    /\ call' = [call EXCEPT !.ret.dict =
                   CaElement([pv_data |-> [kind |-> "dict", d |-> call.args[1]]])]
    /\ UNCHANGED <<scanvars, waitvars>>

\* test_init_with_data_list: CaElement(pv_data=[pv_name, pv_props, pv_tags])
CaElement_list_call ==
    /\ call.fn = "CaElement"
    /\ call.ret.list = Unset
    /\ call' = [call EXCEPT !.ret.list =
                   CaElement([pv_data |->
                       [kind |-> "list",
                        l |-> <<call.args[1].pv_name, call.args[1].pv_props,
                                call.args[1].pv_tags>>]])]
    /\ UNCHANGED <<scanvars, waitvars>>

\* test_init_with_data_props: CaElement with the properties as keyword arguments
CaElement_props_call ==
    /\ call.fn = "CaElement"
    /\ call.ret.props = Unset
    /\ call' = [call EXCEPT !.ret.props = CaElement(call.args[1].pv_props)]
    /\ UNCHANGED <<scanvars, waitvars>>

NextElem ==
    \/ CaElement_dict_call
    \/ CaElement_list_call
    \/ CaElement_props_call

SpecElem == InitElem /\ [][NextElem]_vars

----------------------------------------------------------------------------
(* Claims about the scan *)

IsPrefix(p, q) == Len(p) <= Len(q) /\ \A k \in 1..Len(p) : p[k] = q[k]

RECURSIVE Concat(_, _)
\* f[1] \o f[2] \o ... \o f[n]
Concat(f, n) == IF n = 0 THEN <<>> ELSE Concat(f, n - 1) \o f[n]

\* the hardware operations the scan of the corrector at position c stands for
ScanOf(c) ==
    <<Ev("get", c, ANG_call[correctors[c]])>>
      \o Concat([s \in 1..Len(scan) |->
                   <<Ev("set", c, scan[s]), Ev("sleep", c, wait),
                     Ev("read", c, Len(monitors) * Len(xoy))>>], Len(scan))
      \o <<Ev("set", c, ANG_call[correctors[c]])>>

ExpectedLog == Concat([c \in 1..Len(correctors) |-> ScanOf(c)], Len(correctors))

\* C1: in get_orm the hardware operations are, for every corrector in list
\* order and every scan value in scan order, write the value, sleep `wait`,
\* read the orbit of all monitors: each (corrector, scan value) is written
\* once, followed by one orbit read, and nothing is repeated.
C1_ScanOrder ==
    /\ IsPrefix(log, ExpectedLog)
    /\ pc = "done" => log = ExpectedLog

C1_Witness ==
    /\ pc = "done"
    /\ Len(correctors) >= 2
    /\ Len(scan) >= 2
    /\ Len(monitors) >= 1
    /\ Len(log) = Len(correctors) * (3 * Len(scan) + 2)

\* C2: get_orm reads each corrector's value before scanning it and writes it
\* back after the last scan step; when get_orm returns every corrector has
\* the value it had when get_orm was called.
C2_Restored ==
    /\ pc = "reset" => cor_val0 = ANG_call[correctors[i]]
    /\ pc \in {"cor_loop", "done"} => ANG = ANG_call

C2_Witness ==
    /\ pc = "done"
    /\ Len(correctors) >= 2
    /\ Len(scan) >= 1
    /\ scan[Len(scan)] # ANG_call[correctors[1]]
    /\ ANG = ANG_call

\* C3: get_orm returns a matrix of shape (m, n), n the number of correctors
\* and m the number of monitors times len(xoy), for xoy in 'x', 'y', 'xy';
\* no orbit reading fails to fit a row of the scan array.
C3_Shape ==
    /\ pc # "raised" \/ (Len(monitors) > 0 /\ polyfit_may_raise(scan))
    /\ pc = "done" =>
          /\ ret.shape = <<Len(monitors) * Len(xoy), Len(correctors)>>
          /\ DOMAIN ret.a = 1..(Len(monitors) * Len(xoy))
          /\ \A k \in DOMAIN ret.a : DOMAIN ret.a[k] = 1..Len(correctors)

C3_Witness ==
    /\ pc = "done"
    /\ xoy = <<"x", "y">>
    /\ Len(monitors) = 2
    /\ Len(correctors) = 2
    /\ ret.shape = <<4, 2>>

\* the response of reading k of the orbit vector to the corrector at list
\* position c: readings are linear in the corrector values, so it is the
\* change of the reading when that corrector goes up by one
Response(k, c) ==
    get_orbit([ANG EXCEPT ![correctors[c]] = @ + 1], monitors, xoy)[k]
      - get_orbit(ANG, monitors, xoy)[k]

TwoDistinct(x) == \E a, b \in DOMAIN x : x[a] # x[b]

\* C4: column c of the returned matrix holds the slopes of the linear fits
\* of the readings taken while corrector c was scanned; with readings linear
\* in the scanned corrector and at least two distinct scan values, entry
\* (k, c) is the response R[k][c] of reading k to corrector c.
C4_Slope ==
    (pc = "done" /\ TwoDistinct(scan)) =>
        \A k \in 1..ret.shape[1], c \in 1..ret.shape[2] :
            /\ ret.a[k][c].den # 0
            /\ ret.a[k][c].num = Response(k, c) * ret.a[k][c].den

C4_Witness ==
    /\ pc = "done"
    /\ TwoDistinct(scan)
    /\ ret.shape = <<4, 2>>
    /\ \E k \in 1..4 : Response(k, 1) # Response(k, 2)
    /\ \E k \in 1..4 : Response(k, 1) = 0

\* C8: get_orm_for_one_corrector for corrector number idx performs the
\* hardware operations get_orm performs for its idx-th corrector, restores
\* the corrector, and returns m values equal to column idx of get_orm's
\* result.
C8_OneColumn ==
    /\ pc \in {"one_scan_loop", "one_sleep", "one_get_orbit", "one_polyfit", "one_done"}
          => IsPrefix(log1, SelectSeq(log, LAMBDA e : e.cor = idx))
    /\ pc \in {"one_polyfit", "one_done"}
          => /\ log1 = SelectSeq(log, LAMBDA e : e.cor = idx)
             /\ ANG = ANG_call
    /\ pc = "one_done"
          => /\ DOMAIN r = 1..(Len(monitors) * Len(xoy))
             /\ \A k \in DOMAIN r : r[k] = ret.a[k][idx]

C8_Witness ==
    /\ pc = "one_done"
    /\ idx = 2
    /\ Len(scan) >= 2
    /\ Len(r) = 4
    /\ \E k \in 1..4 : ret.a[k][1] # ret.a[k][2]

\* the value the scanned corrector holds once step s of its scan has failed:
\* the last value that reached it
LastReached(failed, s, val0) ==
    IF failed = "read" THEN {scan[s]}
    ELSE {scan[s], IF s > 1 THEN scan[s - 1] ELSE val0}

\* the hardware operations of get_orm completed when step s of the scan of
\* the corrector at position c fails
DoneBefore(failed, c, s) ==
    (c - 1) * (3 * Len(scan) + 2) + 1 + 3 * (s - 1) + (IF failed = "read" THEN 2 ELSE 0)

\* C11 as stated: when reading the orbit or writing the corrector raises in
\* the scan of corrector i, corrector i is left at a scan value already
\* written, the last one.
C11_LeftAtScanValue ==
    /\ pc \in {"raised_read", "raised_write"} =>
          ANG[correctors[i]] \in {scan[s] : s \in {iscan - 1, iscan} \cap DOMAIN scan}
    /\ pc \in {"one_raised_read", "one_raised_write"} =>
          ANG[correctors[idx]] \in {scan[s] : s \in {iscan - 1, iscan} \cap DOMAIN scan}

\* C11: the scan has no failure recovery. When reading the orbit or writing
\* the corrector raises in the scan of corrector i, the error leaves get_orm
\* (get_orm_for_one_corrector) at once: nothing was retried, no matrix is
\* returned, corrector i holds the last value that reached it (a scan value,
\* or its original value when the failing step is the first write), the
\* correctors before i are restored and those after i were never touched.
C11_NoRecovery ==
    /\ pc \in {"raised_read", "raised_write"} =>
          LET failed == IF pc = "raised_read" THEN "read" ELSE "write"
          IN /\ ret = NoMat
             /\ IsPrefix(log, ExpectedLog)
             /\ Len(log) = DoneBefore(failed, i, iscan)
             /\ ANG[correctors[i]] \in LastReached(failed, iscan, ANG_call[correctors[i]])
             /\ \A c \in 1..Len(correctors) :
                   c # i => ANG[correctors[c]] = ANG_call[correctors[c]]
             /\ \A k \in DOMAIN log : log[k].cor <= i
    /\ pc \in {"one_raised_read", "one_raised_write"} =>
          LET failed == IF pc = "one_raised_read" THEN "read" ELSE "write"
          IN /\ r = <<>>
             /\ IsPrefix(log1, ScanOf(idx))
             /\ Len(log1) = DoneBefore(failed, 1, iscan)
             /\ ANG[correctors[idx]]
                   \in LastReached(failed, iscan, ANG_call[correctors[idx]])
             /\ \A c \in 1..Len(correctors) :
                   c # idx => ANG[correctors[c]] = ANG_call[correctors[c]]

C11_Witness ==
    /\ pc = "raised_read"
    /\ Len(correctors) = 2
    /\ i = 1
    /\ iscan = 2
    /\ ANG[correctors[1]] = scan[2]
    /\ scan[2] # ANG_call[correctors[1]]
    /\ ANG[correctors[2]] = ANG_call[correctors[2]]

----------------------------------------------------------------------------
(* Claims about get_orbit *)

\* get_orbit has just returned and the correctors are as it saw them
AfterRead == pc \in {"scan_loop", "one_scan_loop"} /\ iscan > 1

\* the readings of field fld of the monitors, in monitor order
Readings(fld) == [k \in 1..Len(monitors) |-> MonitorField(ANG, monitors[k], fld)]

\* C5: get_orbit with xoy='x' returns the x reading (first orb_field) of every
\* monitor and with xoy='y' the y reading (second orb_field) of every
\* monitor, in monitor order.
C5_Direction ==
    AfterRead =>
        /\ xoy = <<"x">> => orbit = Readings(orb_field[1])
        /\ xoy = <<"y">> => orbit = Readings(orb_field[2])

\* C6: get_orbit with xoy='xy' returns 2 * len(monitors) values, all x
\* readings in monitor order and then all y readings in monitor order; row
\* q of a sub-ORM of selected monitors is the row of the global ORM (all
\* monitors, 'xy') that get_index_grid's row index names.
C6_Layout ==
    (AfterRead /\ xoy = <<"x", "y">>) =>
        LET nm == Len(monitors)
        IN /\ Len(orbit) = 2 * nm
           /\ orbit = [p \in 1..(2 * nm) |->
                          IF p <= nm THEN Readings("X")[p] ELSE Readings("Y")[p - nm]]
           /\ \A sel \in DistinctSeqs(1..nm, nm) :
                  \A q \in 1..(2 * Len(sel)) :
                      get_orbit(ANG, sel, xoy)[q] = orbit[row_idx(monitors, sel, xoy)[q] + 1]

C6_Witness ==
    /\ AfterRead
    /\ xoy = <<"x", "y">>
    /\ Len(monitors) = 2
    /\ Len(orbit) = 4
    /\ Cardinality({orbit[p] : p \in 1..4}) = 4

----------------------------------------------------------------------------
(* Claims about get_index_grid *)

\* the global ORM of a lattice, every entry labelled with what it relates:
\* columns are all HCOR then all VCOR, rows all BPM x then all BPM y
GlobalORM(lattice) ==
    LET all_cors == get_elements(lattice, "HCOR") \o get_elements(lattice, "VCOR")
        all_bpms == get_elements(lattice, "BPM")
        nb == Len(all_bpms)
    IN [row \in 1..(2 * nb) |->
           [col \in 1..Len(all_cors) |->
               [bpm |-> all_bpms[((row - 1) % nb) + 1],
                dir |-> IF row <= nb THEN "x" ELSE "y",
                cor |-> all_cors[col]]]]

\* G[np.ix_(rows, cols)]: 0-based indices into 1-based sequences
submatrix(G, grid) ==
    [rr \in 1..Len(grid.rows) |->
        [cc \in 1..Len(grid.cols) |-> G[grid.rows[rr] + 1][grid.cols[cc] + 1]]]

\* the number of BPMs ahead of element e in the lattice
BpmsBefore(lattice, e) ==
    Cardinality({q \in 1..(e.pos - 1) : lattice[q].type = "BPM"})

\* C7: for correctors and monitors of the lattice, the grid of
\* get_index_grid selects from the global ORM the sub-matrix of shape
\* (len(monitors) * len(xoy), len(correctors)) whose entry (r, c) relates the
\* r-th selected monitor reading to the c-th selected corrector; rows are
\* the BPM indices for 'x', those plus the BPM count for 'y', and the former
\* followed by the latter for 'xy'.
C7_IndexGrid ==
    call.fn = "get_index_grid" =>
        LET lattice == call.args[1]
            cors == call.args[2]
            mons == call.args[3]
            xy == call.args[4]
            grid == call.ret
            sub == submatrix(GlobalORM(lattice), grid)
            nb == Len(get_elements(lattice, "BPM"))
            xrows == [p \in 1..Len(mons) |-> BpmsBefore(lattice, mons[p])]
            yrows == [p \in 1..Len(mons) |-> BpmsBefore(lattice, mons[p]) + nb]
        IN /\ Len(sub) = Len(mons) * Len(xy)
           /\ \A rr \in 1..Len(sub) :
                 /\ Len(sub[rr]) = Len(cors)
                 /\ \A cc \in 1..Len(cors) :
                       sub[rr][cc] = [bpm |-> mons[((rr - 1) % Len(mons)) + 1],
                                      dir |-> xy[((rr - 1) \div Len(mons)) + 1],
                                      cor |-> cors[cc]]
           /\ xy = <<"x">> => grid.rows = xrows
           /\ xy = <<"y">> => grid.rows = yrows
           /\ xy = <<"x", "y">> => grid.rows = xrows \o yrows

C7_Witness ==
    /\ call.fn = "get_index_grid"
    /\ call.args[4] = <<"y">>
    /\ Len(call.args[2]) = 2
    /\ call.args[2][1].type = "VCOR"
    /\ call.args[2][2].type = "HCOR"
    /\ Len(call.args[3]) = 2
    /\ call.ret.rows = <<3, 2>>
    /\ call.ret.cols = <<1, 0>>

----------------------------------------------------------------------------
(* Claims about inverse_matrix and get_correctors_settings *)

\* C9: inverse_matrix takes any matrix M of shape (m, n), also a rank
\* deficient one, and returns P of shape (n, m) with M * P * M = M.
C9_PseudoInverse ==
    call.fn = "inverse_matrix" =>
        LET M == call.args[1].num
            P == call.ret
        IN /\ Rows(P.num) = Cols(M)
           /\ Cols(P.num) = Rows(M)
           /\ P.den # 0
           /\ MatMul(MatMul(M, P.num), M) = Scale(P.den, M)

\* C10: get_correctors_settings(orm, d, inverse=False) equals
\* get_correctors_settings(inverse_matrix(orm), d, inverse=True): without
\* the flag the result is the product of the once inverted matrix with d,
\* with the flag it is the product of the given matrix with d.
C10_InverseFlag ==
    call.fn = "get_correctors_settings" =>
        LET orm == call.args[1]
            d == call.args[2]
            inverse == call.args[3]
        IN /\ ~inverse =>
                 /\ call.ret = get_correctors_settings(inverse_matrix(orm), d, TRUE)
                 /\ call.ret = dot(inverse_matrix(orm), d)
           /\ inverse => call.ret = dot(orm, d)

C10_Witness ==
    /\ call.fn = "get_correctors_settings"
    /\ ~call.args[3]
    /\ Rows(call.args[1].num) = 2
    /\ Cols(call.args[1].num) = 1
    /\ call.ret.den = 2
    /\ call.ret.num # <<0>>

----------------------------------------------------------------------------
(* Claims about waitStableOrbit *)

\* C12: waitStableOrbit waits at least minwait seconds, then polls the orbit
\* every `step` seconds until the orbit is stable around reforbit
\* (std(orbit - reforbit) < diffstd) or more than maxwait seconds have
\* elapsed; timeout is True only when it stopped because of maxwait, and it
\* never returns before the orbit is stable unless the timeout occurred.
C12_StableOrTimeout ==
    wpc \in {"return", "returned"} =>
        /\ now - t0 >= kwargs.minwait
        /\ timeout => dt > kwargs.maxwait
        /\ timeout \/ dv < diffstd

----------------------------------------------------------------------------
(* Claims about getElements and getPvList *)

HasVirtual(l) == \E k \in DOMAIN l : ~IsNone(l[k]) /\ l[k].virtual

\* C13 as stated: getElements with include_virtual=False never returns a
\* virtual element, whatever the form of group.
C13_NeverVirtual ==
    (call.fn = "getElements" /\ ~call.args[3]) => ~HasVirtual(call.ret)

\* C13: for a name, a pattern or a list of names, getElements with
\* include_virtual=False returns the elements the lattice finds without the
\* virtual ones, and with include_virtual=True all of them; a single element
\* object or a list of element objects is returned as it was passed, virtual
\* elements included, whatever include_virtual is.
C13_VirtualFilter ==
    call.fn = "getElements" =>
        LET lat == call.args[1]
            group == call.args[2]
            include_virtual == call.args[3]
            found == getElementList(lat, group)
        IN /\ (group.kind \in {"str", "names"} /\ ~include_virtual) =>
                  /\ ~HasVirtual(call.ret)
                  /\ call.ret = SelectSeq(found, LAMBDA e : IsNone(e) \/ ~e.virtual)
           /\ (group.kind \in {"str", "names"} /\ include_virtual) => call.ret = found
           /\ group.kind = "elem" => call.ret = <<group.e>>
           /\ group.kind = "elems" => call.ret = group.l

C13_Witness ==
    /\ call.fn = "getElements"
    /\ ~call.args[3]
    /\ call.args[2] = [kind |-> "str", s |-> <<"*">>]
    /\ Len(call.args[1]) = 2
    /\ call.args[1][1].virtual
    /\ ~call.args[1][2].virtual
    /\ call.ret = <<call.args[1][2]>>

\* the elements getPvList loops over, and the first PV of each that has one
Matched == getElements(call.args[1], call.args[2], FALSE)

AllCaElements(l) == \A k \in DOMAIN l : ~IsNone(l[k]) /\ l[k].cls = "CaElement"

RECURSIVE FirstPvs(_)
FirstPvs(l) ==
    IF l = <<>> THEN <<>>
    ELSE IF Len(Head(l).pv) = 0 THEN FirstPvs(Tail(l))
    ELSE <<Head(l).pv[1]>> \o FirstPvs(Tail(l))

\* C14: for CaElements with at most one PV each (or first_only=True),
\* getPvList with compress_empty=True returns the PVs of the elements that
\* have one, leaving out the elements with no PV, and does not raise; with
\* compress_empty=False an element with no PV makes it raise ValueError.
C14_CompressEmpty ==
    (/\ call.fn = "getPvList"
     /\ AllCaElements(Matched)
     /\ call.args[3] \/ \A k \in DOMAIN Matched : Len(Matched[k].pv) <= 1) =>
        /\ call.args[4] => call.ret = Returned(FirstPvs(Matched))
        /\ (~call.args[4] /\ \E k \in DOMAIN Matched : Len(Matched[k].pv) = 0) =>
              call.ret = Raised("ValueError")

\* C15: getPvList raises ValueError when a matched element is not a
\* CaElement, and when an element has more than one PV and first_only is
\* False; when it returns with first_only=True the result is the first PV of
\* every element, in element order.
C15_ValueError ==
    (/\ call.fn = "getPvList"
     /\ \A k \in DOMAIN Matched : ~IsNone(Matched[k])) =>
        /\ ~AllCaElements(Matched) => call.ret = Raised("ValueError")
        /\ (~call.args[3] /\ \E k \in DOMAIN Matched : Len(Matched[k].pv) > 1) =>
              call.ret = Raised("ValueError")
        /\ (call.args[3] /\ call.ret.raise = "") =>
              /\ Len(call.ret.ret) = Len(Matched)
              /\ \A k \in DOMAIN Matched : call.ret.ret[k] = Matched[k].pv[1]

----------------------------------------------------------------------------
(* Claims about CaElement *)

Attributes(elem) ==
    <<elem.name, elem.index, elem.length, elem.family, elem.sb, elem.se,
      elem.active, elem.group>>

\* C16: a CaElement built from one PV record has the same name, index,
\* length, family, sb, se, active flag and group, the group being {family},
\* whether the record is passed as a dict, as a list or as keyword
\* properties; the values are those of the record, index through int() and
\* length, sb, se through float(); for the two pv_data forms pv() is
\* [pv_name] and tags[pv_name] is the set of the record's tags.
C16_SameElement ==
    (/\ call.fn = "CaElement"
     /\ Unset \notin {call.ret.dict, call.ret.list, call.ret.props}) =>
        LET record == call.args[1]
            props == record.pv_props
        IN /\ Attributes(call.ret.dict) = Attributes(call.ret.list)
           /\ Attributes(call.ret.list) = Attributes(call.ret.props)
           /\ Attributes(call.ret.dict) =
                 <<props.name, int(props.index), float(props.length), props.family,
                   float(props.sb), float(props.se), TRUE, {props.family}>>
           /\ \A elem \in {call.ret.dict, call.ret.list} :
                 /\ pv(elem) = <<record.pv_name>>
                 /\ elem.tags[record.pv_name] = set(record.pv_tags)

C16_Witness ==
    /\ call.fn = "CaElement"
    /\ Unset \notin {call.ret.dict, call.ret.list, call.ret.props}
    /\ call.args[1].pv_props.index = Str(<<"1", "2">>)
    /\ call.ret.props.index = 12
    /\ call.args[1].pv_props.length = Str(<<"1", "2", ".", "2", "5">>)
    /\ call.ret.list.length = Rat(1225, 100)
    /\ call.args[1].pv_tags = <<"t1", "t1">>
    /\ call.ret.dict.tags["PV1"] = {"t1"}

====
